---- MODULE Spec2Model ----
(***************************************************************************)
(* Green Ledger: the hash-chained ESG activity ledger, the ESG scorer, the *)
(* report generator and the dashboard of src/server.js (and of its logging *)
(* variant src/unnamed/part_000).                                          *)
(*                                                                         *)
(* A JavaScript object is a function from its keys to its values.  JSON    *)
(* key order is not represented: every request body is taken to list its   *)
(* keys in one fixed order, so two objects serialise to the same text      *)
(* exactly when they are equal as functions.                               *)
(***************************************************************************)
EXTENDS Integers, Sequences, FiniteSets, TLC

VARIABLES
    companies,    \* content of data/companies.json
    activities,   \* content of data/esg_activities.json (the ledger)
    reports,      \* content of data/reports.json
    users,        \* content of data/users.json
    nextUuid,     \* number of identifiers uuidv4() has handed out, plus one
    now,          \* the clock read by moment()
    response,     \* the last request and the answer it got
    lastSeal,     \* history: the last report answered, and whether its company got an activity since
    io,           \* the reads that failed and the writes attempted in the last request
    acts,         \* scorer harness: the activities handed to calculateESGScore
    score,        \* scorer harness: what calculateESGScore returned for acts
    inflight      \* overlapping requests: each request started, with the point it has reached

vars == <<companies, activities, reports, users, nextUuid, now, response, lastSeal, io, acts, score,
          inflight>>

files == <<companies, activities, reports, users>>

-----------------------------------------------------------------------------
(* Bounds *)

MaxUuid == 2

MaxNow == 1

\* ticks of the clock in one calendar month
TicksPerMonth == 2

MaxActs == 3

MaxAppends == 3

MaxSeals == 4

\* identifiers handed out under SpecDashboard: a company and six activities
MaxDash == 7
MaxDefaults == 3
MaxForged == 3
MaxRace == 3

-----------------------------------------------------------------------------
(* IEEE-754 binary64 arithmetic on non-negative finite values, as the      *)
(* JavaScript numbers of calculateESGScore need it.                        *)
\* A natural number of arbitrary size is a little-endian sequence of limbs in
\* 0..Base-1 without leading zero limbs; <<>> is zero.
Base == 32768

LimbBits == 15

RECURSIVE Pow2(_)
Pow2(k) == IF k = 0 THEN 1 ELSE 2 * Pow2(k - 1)

RECURSIVE Trim(_)
Trim(a) == IF a = <<>> THEN a
           ELSE IF a[Len(a)] = 0 THEN Trim(SubSeq(a, 1, Len(a) - 1)) ELSE a

BigOfInt(n) == Trim(<<n % Base, (n \div Base) % Base, n \div (Base * Base)>>)

RECURSIVE BigToInt(_)
BigToInt(a) == IF a = <<>> THEN 0 ELSE Head(a) + Base * BigToInt(Tail(a))

RECURSIVE BigAddC(_, _, _)
BigAddC(a, b, c) ==
    IF a = <<>> /\ b = <<>> THEN (IF c = 0 THEN <<>> ELSE <<c>>)
    ELSE LET x == (IF a = <<>> THEN 0 ELSE Head(a)) + (IF b = <<>> THEN 0 ELSE Head(b)) + c
         IN  <<x % Base>> \o BigAddC(IF a = <<>> THEN a ELSE Tail(a),
                                     IF b = <<>> THEN b ELSE Tail(b), x \div Base)

BigAdd(a, b) == BigAddC(a, b, 0)

RECURSIVE BigMulSmallC(_, _, _)
BigMulSmallC(a, k, c) ==
    IF a = <<>> THEN (IF c = 0 THEN <<>> ELSE <<c>>)
    ELSE LET x == Head(a) * k + c
         IN  <<x % Base>> \o BigMulSmallC(Tail(a), k, x \div Base)

BigMulSmall(a, k) == IF k = 0 THEN <<>> ELSE BigMulSmallC(a, k, 0)

RECURSIVE BigMul(_, _)
BigMul(a, b) ==
    IF a = <<>> \/ b = <<>> THEN <<>>
    ELSE LET rest == BigMul(a, Tail(b))
         IN  BigAdd(BigMulSmall(a, Head(b)), IF rest = <<>> THEN rest ELSE <<0>> \o rest)

\* quotient and remainder of a divided by a small n (0 < n < Base), most
\* significant limb first
RECURSIVE BigDivSmallR(_, _, _, _)
BigDivSmallR(a, n, i, r) ==
    IF i = 0 THEN <<<<>>, r>>
    ELSE LET x    == r * Base + a[i]
             rest == BigDivSmallR(a, n, i - 1, x % n)
         IN  <<Append(rest[1], x \div n), rest[2]>>

BigDivSmall(a, n) == LET qr == BigDivSmallR(a, n, Len(a), 0)
                     IN  <<Trim(qr[1]), qr[2]>>

BigShl(a, k) ==
    IF a = <<>> THEN a
    ELSE [i \in 1..(k \div LimbBits) |-> 0] \o BigMulSmall(a, Pow2(k % LimbBits))

BigShr(a, k) ==
    IF k \div LimbBits >= Len(a) THEN <<>>
    ELSE BigDivSmall(SubSeq(a, (k \div LimbBits) + 1, Len(a)), Pow2(k % LimbBits))[1]

RECURSIVE BitLenInt(_)
BitLenInt(n) == IF n = 0 THEN 0 ELSE 1 + BitLenInt(n \div 2)

BigBitLen(a) == IF a = <<>> THEN 0 ELSE LimbBits * (Len(a) - 1) + BitLenInt(a[Len(a)])

BigIsOdd(a) == a # <<>> /\ Head(a) % 2 = 1

\* A double is [m, e] with value m * 2^e, m of at most MantBits bits.
MantBits == 53

\* round m * 2^e (plus a positive amount below one unit of m when sticky) to
\* the nearest double, ties to even
RoundToDouble(m, e, sticky) ==
    LET len == BigBitLen(m)
    IN  IF len <= MantBits THEN [m |-> m, e |-> e]
        ELSE LET sh    == len - MantBits
                 q     == BigShr(m, sh)
                 hi    == BigShr(m, sh - 1)
                 guard == BigIsOdd(hi)
                 low   == sticky \/ BigShl(hi, sh - 1) # m
                 up    == guard /\ (low \/ BigIsOdd(q))
             IN  [m |-> IF up THEN BigAdd(q, <<1>>) ELSE q, e |-> e + sh]

DZero == [m |-> <<>>, e |-> 0]

DOfInt(n) == [m |-> BigOfInt(n), e |-> 0]

DivGuard == 75

\* s / n for integers s >= 0, 0 < n < Base
DDivInt(s, n) ==
    LET qr == BigDivSmall(BigShl(BigOfInt(s), DivGuard), n)
    IN  IF s = 0 THEN DZero ELSE RoundToDouble(qr[1], 0 - DivGuard, qr[2] # 0)

DMul(x, y) ==
    IF x.m = <<>> \/ y.m = <<>> THEN DZero
    ELSE RoundToDouble(BigMul(x.m, y.m), x.e + y.e, FALSE)

DAdd(x, y) ==
    IF x.m = <<>> THEN y
    ELSE IF y.m = <<>> THEN x
    ELSE LET e == IF x.e < y.e THEN x.e ELSE y.e
         IN  RoundToDouble(BigAdd(BigShl(x.m, x.e - e), BigShl(y.m, y.e - e)), e, FALSE)

\* Math.round: the integer nearest to x, ties toward +infinity
MathRound(x) ==
    IF x.e >= 0 THEN BigToInt(BigShl(x.m, x.e))
    ELSE BigToInt(BigShr(BigAdd(x.m, BigShl(<<1>>, (0 - x.e) - 1)), 0 - x.e))

-----------------------------------------------------------------------------
(* JavaScript objects *)

Has(obj, key) == key \in DOMAIN obj

\* delete obj[key]
Without(obj, key) == [k \in (DOMAIN obj) \ {key} |-> obj[k]]

\* an assignment that keeps the value the object already has for the key
WithIfAbsent(obj, key, value) == obj @@ (key :> value)

\* { ...obj, key: value }
With(obj, key, value) == (key :> value) @@ obj

-----------------------------------------------------------------------------
(* ESG scorer: calculateESGScore *)

Categories == <<"environmental", "social", "governance">>

\* what a Number-typed result holds when the arithmetic produced NaN
NaN == -1

\* weights = { environmental: 0.4, social: 0.3, governance: 0.3 }: each literal
\* is the double nearest to the decimal
weights == [environmental |-> DDivInt(4, 10), social |-> DDivInt(3, 10),
            governance |-> DDivInt(3, 10)]

\* activity.category used as a property key (a missing one is the key "undefined")
CategoryKey(activity) == IF Has(activity, "category") THEN activity.category ELSE "undefined"

\* activity.impact_score || 5
ImpactOrDefault(activity) ==
    IF Has(activity, "impact_score") /\ activity.impact_score # 0
    THEN activity.impact_score ELSE 5

RECURSIVE SumImpact(_, _)
SumImpact(list, category) ==
    IF list = <<>> THEN 0
    ELSE (IF CategoryKey(Head(list)) = category THEN ImpactOrDefault(Head(list)) ELSE 0)
         + SumImpact(Tail(list), category)

\* categoryScores[category] = ... in place of +=: the last activity wins
RECURSIVE LastImpact(_, _)
LastImpact(list, category) ==
    IF list = <<>> THEN 0
    ELSE IF CategoryKey(list[Len(list)]) = category THEN ImpactOrDefault(list[Len(list)])
    ELSE LastImpact(SubSeq(list, 1, Len(list) - 1), category)

\* categoryScores[category] after the forEach of lines 73-75
CategoryScore(list, category) == SumImpact(list, category)

RECURSIVE CountCategory(_, _)
\* activities.filter(a => a.category === category).length
CountCategory(list, category) ==
    IF list = <<>> THEN 0
    ELSE (IF Has(Head(list), "category") /\ Head(list).category = category THEN 1 ELSE 0)
         + CountCategory(Tail(list), category)

\* (categoryScores[category] / count || 0) * weights[category]
CategoryTerm(list, category) ==
    LET count == CountCategory(list, category)
        mean  == IF count = 0 THEN DZero ELSE DDivInt(CategoryScore(list, category), count)
    IN  DMul(mean, weights[category])

\* totalScore after the forEach of lines 77-79, the three fixed keys in order
TotalScore(list) ==
    DAdd(DAdd(DAdd(DZero, CategoryTerm(list, Categories[1])),
              CategoryTerm(list, Categories[2])),
         CategoryTerm(list, Categories[3]))

\* the clamp left out
MathMinNoClamp(a, b) == a

MathMin(a, b) == IF a < b THEN a ELSE b

\* a key outside the three makes categoryScores[key] NaN and its weight
\* undefined, so totalScore, and with it the result, is NaN
calculateESGScore(list) ==
    IF Len(list) = 0 THEN 0
    ELSE IF \E i \in 1..Len(list) : \A c \in 1..3 : CategoryKey(list[i]) # Categories[c]
         THEN NaN
    ELSE MathMin(MathRound(TotalScore(list)), 100)

-----------------------------------------------------------------------------
(* Persistence and hashing *)

\* the catch left out of the model of the read: the stored content always
readJSONFileStored(file, readOk) == file

\* readJSONFile: a failed read or parse is swallowed and yields []
readJSONFile(file, readOk) == IF readOk THEN file ELSE <<>>

\* a digest of the identifier alone
generateHashOfId(data) == [sha256 |-> IF Has(data, "id") THEN data.id ELSE 0]

\* generateHash: SHA-256 of JSON.stringify(data), taken to be injective; the
\* digest of data is data under the tag sha256
generateHash(data) == [sha256 |-> data]

\* a hash-valued field holding the plain string s
HashString(s) == [str |-> s]

\* the prev_hash of the first record, '0'
Sentinel == HashString("0")

\* moment(created_at).format('YYYY-MM'): the calendar month, in the zone of the
\* server, that holds the instant t; a month lasts TicksPerMonth ticks
MonthOf(t) == t \div TicksPerMonth

\* a.key === value
FieldIs(obj, key, value) == Has(obj, key) /\ obj[key] = value

\* companies.find(c => c.id === id): the index of the first match, 0 for none
RECURSIVE FindCompanyFrom(_, _, _)
FindCompanyFrom(list, id, i) ==
    IF i > Len(list) THEN 0
    ELSE IF FieldIs(list[i], "id", id) THEN i
    ELSE FindCompanyFrom(list, id, i + 1)

\* find(c => c.id = id): an assignment, true of the first company
FindCompanyAny(list, id) == IF Len(list) > 0 THEN 1 ELSE 0

FindCompany(list, id) == FindCompanyFrom(list, id, 1)

\* the filter left out: every activity of the ledger
AllActivities(list, companyId) == list

\* activities.filter(a => a.company_id === companyId)
CompanyActivities(list, companyId) ==
    LET Owned(a) == FieldIs(a, "company_id", companyId)
    IN  SelectSeq(list, Owned)

\* { environmental: n, social: n, governance: n }
CountsByCategory(list) ==
    [environmental |-> CountCategory(list, "environmental"),
     social        |-> CountCategory(list, "social"),
     governance    |-> CountCategory(list, "governance")]

\* list.sort((a, b) => new Date(b.created_at) - new Date(a.created_at)):
\* a stable sort, latest created_at first
RECURSIVE InsertByDate(_, _)
InsertByDate(sorted, a) ==
    IF sorted = <<>> THEN <<a>>
    ELSE IF Head(sorted).created_at >= a.created_at
         THEN <<Head(sorted)>> \o InsertByDate(Tail(sorted), a)
         ELSE <<a>> \o sorted

RECURSIVE SortNewestFirst(_)
SortNewestFirst(list) ==
    IF list = <<>> THEN <<>>
    ELSE InsertByDate(SortNewestFirst(SubSeq(list, 1, Len(list) - 1)), list[Len(list)])

\* trend[month] = 1 in place of (trend[month] || 0) + 1
getMonthlyTrendFlat(list) ==
    [m \in {MonthOf(list[i].created_at) : i \in 1..Len(list)} |-> 1]

\* getMonthlyTrend: month key -> number of activities created in that month
getMonthlyTrend(list) ==
    LET months == {MonthOf(list[i].created_at) : i \in 1..Len(list)}
    IN  [m \in months |-> Cardinality({i \in 1..Len(list) : MonthOf(list[i].created_at) = m})]

\* companyActivities.slice(0, 5)
RecentCount == 5

Slice(list, from, to) == SubSeq(list, from + 1, IF to < Len(list) THEN to ELSE Len(list))

-----------------------------------------------------------------------------
(* Requests *)

\* identifiers a caller may name (path parameters, company_id, a forged id)
IdInputs == 1..2

\* req.body of POST /api/companies
CompanyBodies ==
    { [name |-> "Acme"],
      [name |-> "Zed", id |-> 1, created_at |-> 0, esg_score |-> 50] }

\* req.body of POST /api/esg-activities
ActivityBodies ==
    { [company_id |-> 1, category |-> "environmental"],
      [company_id |-> 1, category |-> "social", impact_score |-> 0],
      [company_id |-> 2, category |-> "governance", impact_score |-> 8],
      [company_id |-> 1, category |-> "transport", impact_score |-> 3] }

\* bodies that leave the category out or carry the fields the server assigns
ForgedActivityBodies ==
    { [company_id |-> 2, impact_score |-> 8],
      [company_id |-> 1, category |-> "governance", prev_hash |-> HashString("f")],
      [company_id |-> 2, category |-> "environmental", id |-> 1, created_at |-> 0,
       hash |-> HashString("f"), prev_hash |-> HashString("f")] }

\* req.body of POST /api/reports/:companyId
ReportBodies ==
    { << >>, [framework |-> "SASB"], [period |-> "2025"] }

\* req.query of GET /api/esg-activities
ActivityQueries ==
    { << >>, [company_id |-> 1], [category |-> "environmental"],
      [company_id |-> 1, category |-> "environmental"], [category |-> ""] }

NoSeal == [sealed |-> FALSE]

\* what a request did to the files: the collections whose read threw inside
\* readJSONFile, the calls of writeJSONFile, and how many of them threw
NoIo == [failedReads |-> {}, writes |-> 0, failedWrites |-> 0]

FailedRead(name, readOk) == IF readOk THEN {} ELSE {name}

ReadOnly(failedReads) == [failedReads |-> failedReads, writes |-> 0, failedWrites |-> 0]

OneWrite(failedReads, writeOk) ==
    [failedReads |-> failedReads, writes |-> 1, failedWrites |-> IF writeOk THEN 0 ELSE 1]

NoResponse == [op |-> "none", status |-> 0]

\* a catch that answers as if the write had gone through
FailureSwallowed(op, req, message) ==
    [op |-> op, req |-> req, status |-> 201, body |-> [error |-> message]]

Failure(op, req, message) ==
    [op |-> op, req |-> req, status |-> 500, body |-> [error |-> message]]

NotFound(op, req) ==
    [op |-> op, req |-> req, status |-> 404, body |-> [error |-> "Company not found"]]

-----------------------------------------------------------------------------
(* State after startServer: initializeDataFiles left four empty collections *)

Init ==
    /\ companies = <<>>
    /\ activities = <<>>
    /\ reports = <<>>
    /\ users = <<>>
    /\ nextUuid = 1
    /\ now = 0
    /\ response = NoResponse
    /\ lastSeal = NoSeal
    /\ io = NoIo
    /\ acts = <<>>
    /\ score = 0
    /\ inflight = <<>>

\* time passes between two requests
Tick ==
    /\ now < MaxNow
    /\ now' = now + 1
    /\ UNCHANGED <<inflight, companies, activities, reports, users, nextUuid, response, lastSeal, io, acts, score>>

\* GET /api/companies
GetCompanies(readOk) ==
    /\ response' = [op |-> "GET /api/companies", req |-> << >>, status |-> 200,
                    body |-> readJSONFile(companies, readOk)]
    /\ io' = ReadOnly(FailedRead("companies", readOk))
    /\ UNCHANGED <<inflight, companies, activities, reports, users, nextUuid, now, lastSeal, acts, score>>

\* { id: uuidv4(), ...req.body, created_at: moment().toISOString(), esg_score: 0 }
NewCompany(body, uuid, time) ==
    ("esg_score" :> 0) @@ ("created_at" :> time) @@ body @@ ("id" :> uuid)

\* POST /api/companies
PostCompanies(body, readOk, writeOk) ==
    LET list       == readJSONFile(companies, readOk)
        newCompany == NewCompany(body, nextUuid, now)
    IN  /\ nextUuid' = nextUuid + 1
        /\ IF writeOk
           THEN /\ companies' = Append(list, newCompany)
                /\ response' = [op |-> "POST /api/companies", req |-> body, status |-> 201,
                                body |-> newCompany]
           ELSE /\ companies' = companies
                /\ response' = Failure("POST /api/companies", body, "Failed to create company")
        /\ io' = OneWrite(FailedRead("companies", readOk), writeOk)
        /\ UNCHANGED <<inflight, activities, reports, users, now, lastSeal, acts, score>>

\* GET /api/companies/:id that writes the company back with the derived fields
GetCompanyByIdStoring(id, readCompaniesOk, readActivitiesOk) ==
    LET list  == readJSONFile(companies, readCompaniesOk)
        found == FindCompany(list, id)
        companyActivities == CompanyActivities(readJSONFile(activities, readActivitiesOk), id)
        company == ("total_activities" :> Len(companyActivities))
                   @@ ("esg_score" :> calculateESGScore(companyActivities))
                   @@ list[found]
    IN  /\ response' = IF found = 0
                       THEN NotFound("GET /api/companies/:id", [id |-> id])
                       ELSE [op |-> "GET /api/companies/:id", req |-> [id |-> id],
                             status |-> 200, body |-> company]
        /\ companies' = IF found = 0 THEN companies ELSE [list EXCEPT ![found] = company]
        /\ io' = ReadOnly(FailedRead("companies", readCompaniesOk)
                           \cup IF found = 0 THEN {}
                                ELSE FailedRead("activities", readActivitiesOk))
        /\ UNCHANGED <<inflight, activities, reports, users, nextUuid, now, lastSeal, acts, score>>

\* GET /api/companies/:id
GetCompanyById(id, readCompaniesOk, readActivitiesOk) ==
    LET list  == readJSONFile(companies, readCompaniesOk)
        found == FindCompany(list, id)
        companyActivities == CompanyActivities(readJSONFile(activities, readActivitiesOk), id)
        company == ("total_activities" :> Len(companyActivities))
                   @@ ("esg_score" :> calculateESGScore(companyActivities))
                   @@ list[found]
    IN  /\ response' = IF found = 0
                       THEN NotFound("GET /api/companies/:id", [id |-> id])
                       ELSE [op |-> "GET /api/companies/:id", req |-> [id |-> id],
                             status |-> 200, body |-> company]
        /\ io' = ReadOnly(FailedRead("companies", readCompaniesOk)
                           \cup IF found = 0 THEN {}
                                ELSE FailedRead("activities", readActivitiesOk))
        /\ UNCHANGED <<inflight, companies, activities, reports, users, nextUuid, now, lastSeal, acts, score>>

\* if (category): a parameter given as the empty string is falsy
Truthy(query, key) == Has(query, key) /\ query[key] # ""

\* GET /api/esg-activities
GetEsgActivities(query, readOk) ==
    LET list == readJSONFile(activities, readOk)
        ByCompany(a)  == FieldIs(a, "company_id", query.company_id)
        ByCategory(a) == FieldIs(a, "category", query.category)
        filtered1 == IF Has(query, "company_id") THEN SelectSeq(list, ByCompany) ELSE list
        filtered2 == IF Truthy(query, "category") THEN SelectSeq(filtered1, ByCategory) ELSE filtered1
    IN  /\ response' = [op |-> "GET /api/esg-activities", req |-> query, status |-> 200,
                        body |-> SortNewestFirst(filtered2)]
        /\ io' = ReadOnly(FailedRead("activities", readOk))
        /\ UNCHANGED <<inflight, companies, activities, reports, users, nextUuid, now, lastSeal, acts, score>>

-----------------------------------------------------------------------------
\* { id: uuidv4(), ...req.body, created_at: moment().toISOString() }
ActivityData(body, uuid, time) == ("created_at" :> time) @@ body @@ ("id" :> uuid)

\* the hash of the last record of the same company: a chain per company
RECURSIVE PrevHashPerCompany(_, _)
PrevHashPerCompany(list, activityData) ==
    IF list = <<>> THEN Sentinel
    ELSE IF Has(activityData, "company_id")
            /\ FieldIs(list[Len(list)], "company_id", activityData.company_id)
         THEN list[Len(list)].hash
    ELSE PrevHashPerCompany(SubSeq(list, 1, Len(list) - 1), activityData)

\* activities.length > 0 ? activities[activities.length - 1].hash : '0'
PrevHash(list, activityData) ==
    IF Len(list) > 0 THEN list[Len(list)].hash ELSE Sentinel

\* the record pushed onto the ledger: activityData once hash (line 172) and
\* then prev_hash (line 173) are assigned
StoredActivity(body, uuid, time, list) ==
    LET activityData == ActivityData(body, uuid, time)
        hashed       == With(activityData, "hash", generateHash(activityData))
    IN  With(hashed, "prev_hash", PrevHash(list, activityData))

\* POST /api/esg-activities
PostEsgActivities(body, readOk, writeOk) ==
    LET list         == readJSONFile(activities, readOk)
        activityData == StoredActivity(body, nextUuid, now, list)
    IN  /\ nextUuid' = nextUuid + 1
        /\ IF writeOk
           THEN /\ activities' = Append(list, activityData)
                /\ response' = [op |-> "POST /api/esg-activities", req |-> body,
                                status |-> 201, body |-> activityData]
                /\ lastSeal' = IF lastSeal.sealed /\ FieldIs(activityData, "company_id", lastSeal.company_id)
                               THEN [lastSeal EXCEPT !.appended = TRUE]
                               ELSE lastSeal
           ELSE /\ activities' = activities
                /\ response' = Failure("POST /api/esg-activities", body, "Failed to create ESG activity")
                /\ lastSeal' = lastSeal
        /\ io' = OneWrite(FailedRead("activities", readOk), writeOk)
        /\ UNCHANGED <<inflight, companies, reports, users, now, acts, score>>

\* const { framework = 'GRI', period = '2024' } = req.body
\* framework || 'GRI': a default that also replaces a falsy supplied value
FrameworkFalsy(body) == IF Truthy(body, "framework") THEN body.framework ELSE "GRI"

Framework(body) == IF Has(body, "framework") THEN body.framework ELSE "GRI"

Period(body) == IF Has(body, "period") THEN body.period ELSE "2024"

\* the report object of lines 200-215
Report(companyId, company, body, companyActivities, uuid, time) ==
    (IF Has(company, "name") THEN [company_name |-> company.name] ELSE << >>) @@
    [ id                     |-> uuid,
      company_id             |-> companyId,
      framework              |-> Framework(body),
      period                 |-> Period(body),
      generated_at           |-> time,
      esg_score              |-> calculateESGScore(companyActivities),
      total_activities       |-> Len(companyActivities),
      activities_by_category |-> CountsByCategory(companyActivities),
      hash |-> generateHash([companyId |-> companyId, framework |-> Framework(body),
                             period |-> Period(body), activities |-> companyActivities]) ]

\* POST /api/reports/:companyId
PostReports(companyId, body, readCompaniesOk, readActivitiesOk, readReportsOk, writeOk) ==
    LET list    == readJSONFile(companies, readCompaniesOk)
        found   == FindCompany(list, companyId)
        companyActivities ==
            CompanyActivities(readJSONFile(activities, readActivitiesOk), companyId)
        report  == Report(companyId, list[found], body, companyActivities, nextUuid, now)
        req     == [companyId |-> companyId, body |-> body]
    IN  IF found = 0
        THEN /\ response' = NotFound("POST /api/reports/:companyId", req)
             /\ io' = ReadOnly(FailedRead("companies", readCompaniesOk))
             /\ UNCHANGED <<inflight, companies, activities, reports, users, nextUuid, now, lastSeal, acts, score>>
        ELSE /\ nextUuid' = nextUuid + 1
             /\ IF writeOk
                THEN /\ reports' = Append(readJSONFile(reports, readReportsOk), report)
                     /\ response' = [op |-> "POST /api/reports/:companyId", req |-> req,
                                     status |-> 200, body |-> report]
                     /\ lastSeal' = [sealed |-> TRUE, company_id |-> companyId,
                                     framework |-> report.framework, period |-> report.period,
                                     hash |-> report.hash, esg_score |-> report.esg_score,
                                     appended |-> FALSE]
                ELSE /\ reports' = reports
                     /\ response' = Failure("POST /api/reports/:companyId", req, "Failed to generate report")
                     /\ lastSeal' = lastSeal
             /\ io' = OneWrite(FailedRead("companies", readCompaniesOk)
                                \cup FailedRead("activities", readActivitiesOk)
                                \cup FailedRead("reports", readReportsOk), writeOk)
             /\ UNCHANGED <<inflight, companies, activities, users, now, acts, score>>

\* the dashboard object of lines 242-253
Dashboard(company, companyActivities) ==
    (IF Has(company, "name") THEN [company |-> company.name] ELSE << >>) @@
    [ esg_score         |-> calculateESGScore(companyActivities),
      total_activities  |-> Len(companyActivities),
      categories        |-> CountsByCategory(companyActivities),
      recent_activities |-> Slice(companyActivities, 0, RecentCount),
      monthly_trend     |-> getMonthlyTrend(companyActivities) ]

\* GET /api/dashboard/:companyId
GetDashboard(companyId, readCompaniesOk, readActivitiesOk) ==
    LET list  == readJSONFile(companies, readCompaniesOk)
        found == FindCompany(list, companyId)
        companyActivities ==
            CompanyActivities(readJSONFile(activities, readActivitiesOk), companyId)
        req   == [companyId |-> companyId]
    IN  /\ response' = IF found = 0
                       THEN NotFound("GET /api/dashboard/:companyId", req)
                       ELSE [op |-> "GET /api/dashboard/:companyId", req |-> req,
                             status |-> 200, body |-> Dashboard(list[found], companyActivities)]
        /\ io' = ReadOnly(FailedRead("companies", readCompaniesOk)
                           \cup IF found = 0 THEN {}
                                ELSE FailedRead("activities", readActivitiesOk))
        /\ UNCHANGED <<inflight, companies, activities, reports, users, nextUuid, now, lastSeal, acts, score>>

\* the server: every request, with every outcome of its reads and writes
Next ==
    \/ Tick
    \/ \E readOk \in BOOLEAN : GetCompanies(readOk)
    \/ \E body \in CompanyBodies, readOk, writeOk \in BOOLEAN :
          nextUuid <= MaxUuid /\ PostCompanies(body, readOk, writeOk)
    \/ \E id \in IdInputs, readCompaniesOk, readActivitiesOk \in BOOLEAN :
          GetCompanyById(id, readCompaniesOk, readActivitiesOk)
    \/ \E query \in ActivityQueries, readOk \in BOOLEAN : GetEsgActivities(query, readOk)
    \/ \E body \in ActivityBodies, readOk, writeOk \in BOOLEAN :
          nextUuid <= MaxUuid /\ PostEsgActivities(body, readOk, writeOk)
    \/ \E companyId \in IdInputs, body \in ReportBodies,
          readCompaniesOk, readActivitiesOk, readReportsOk, writeOk \in BOOLEAN :
          nextUuid <= MaxUuid /\
          PostReports(companyId, body, readCompaniesOk, readActivitiesOk, readReportsOk, writeOk)
    \/ \E companyId \in IdInputs, readCompaniesOk, readActivitiesOk \in BOOLEAN :
          GetDashboard(companyId, readCompaniesOk, readActivitiesOk)

Spec == Init /\ [][Next]_vars

-----------------------------------------------------------------------------
(* The ledger alone: appends with every body a caller may send, including   *)
(* bodies that carry the server-assigned fields                             *)

\* a caller that read the ledger can send its tail hash as prev_hash
LedgerBodies ==
    ActivityBodies \cup ForgedActivityBodies \cup
    { [company_id |-> 2, category |-> "social", impact_score |-> 8,
       prev_hash |-> PrevHash(activities, << >>)] }

NextLedger ==
    \/ Tick
    \/ \E body \in LedgerBodies, readOk, writeOk \in BOOLEAN :
          nextUuid <= MaxAppends /\ PostEsgActivities(body, readOk, writeOk)

SpecLedger == Init /\ [][NextLedger]_vars

-----------------------------------------------------------------------------
(* Registration, appends and report generation, deep enough for a report,   *)
(* an append and a second report of one company                             *)

NextReports ==
    \/ \E body \in CompanyBodies, readOk, writeOk \in BOOLEAN :
          nextUuid <= MaxSeals /\ PostCompanies(body, readOk, writeOk)
    \/ \E body \in ActivityBodies, readOk, writeOk \in BOOLEAN :
          nextUuid <= MaxSeals /\ PostEsgActivities(body, readOk, writeOk)
    \/ \E companyId \in IdInputs, body \in ReportBodies,
          readCompaniesOk, readActivitiesOk, readReportsOk, writeOk \in BOOLEAN :
          nextUuid <= MaxSeals /\
          PostReports(companyId, body, readCompaniesOk, readActivitiesOk, readReportsOk, writeOk)

SpecReports == Init /\ [][NextReports]_vars

-----------------------------------------------------------------------------
(* Registration and appends whose bodies carry the fields the server        *)
(* assigns, at two clock values                                             *)

NextForged ==
    \/ Tick
    \/ \E body \in CompanyBodies, readOk, writeOk \in BOOLEAN :
          nextUuid <= MaxForged /\ PostCompanies(body, readOk, writeOk)
    \/ \E body \in ForgedActivityBodies, readOk, writeOk \in BOOLEAN :
          nextUuid <= MaxForged /\ PostEsgActivities(body, readOk, writeOk)

SpecForged == Init /\ [][NextForged]_vars

-----------------------------------------------------------------------------
(* Report generation with every shape of request body: neither field, one   *)
(* of them, both, and a supplied value that is the empty string             *)

DefaultsBodies ==
    { << >>,
      [framework |-> "SASB"],
      [period |-> "2025"],
      [framework |-> "TCFD", period |-> "2023"],
      [framework |-> ""] }

NextDefaults ==
    \/ \E readOk, writeOk \in BOOLEAN :
          nextUuid <= MaxDefaults /\ PostCompanies([name |-> "Acme"], readOk, writeOk)
    \/ \E readOk, writeOk \in BOOLEAN :
          nextUuid <= MaxDefaults /\
          PostEsgActivities([company_id |-> 1, category |-> "environmental"], readOk, writeOk)
    \/ \E body \in DefaultsBodies,
          readCompaniesOk, readActivitiesOk, readReportsOk, writeOk \in BOOLEAN :
          nextUuid <= MaxDefaults /\
          PostReports(1, body, readCompaniesOk, readActivitiesOk, readReportsOk, writeOk)

SpecDefaults == Init /\ [][NextDefaults]_vars

-----------------------------------------------------------------------------
(* One registered company and a ledger long enough for a company to own     *)
(* more activities than the dashboard lists as recent                       *)

DashboardBodies ==
    { [company_id |-> 1, category |-> "environmental"],
      [company_id |-> 2, category |-> "governance", impact_score |-> 8] }

NextDashboard ==
    \/ \E readOk, writeOk \in BOOLEAN :
          nextUuid <= MaxDash /\ PostCompanies([name |-> "Acme"], readOk, writeOk)
    \/ \E body \in DashboardBodies, readOk, writeOk \in BOOLEAN :
          nextUuid <= MaxDash /\ PostEsgActivities(body, readOk, writeOk)
    \/ \E companyId \in IdInputs, readCompaniesOk, readActivitiesOk \in BOOLEAN :
          GetDashboard(companyId, readCompaniesOk, readActivitiesOk)

SpecDashboard == Init /\ [][NextDashboard]_vars

-----------------------------------------------------------------------------
(* The scorer alone: calculateESGScore applied to every sequence of at most *)
(* MaxActs activities drawn from ScoreInputs, and to its reorderings        *)

ScoreInputs ==
    { [category |-> "environmental"],
      [category |-> "environmental", impact_score |-> 0],
      [category |-> "environmental", impact_score |-> 1],
      [category |-> "environmental", impact_score |-> 200],
      [category |-> "social", impact_score |-> 6],
      [category |-> "social", impact_score |-> 10],
      [category |-> "social", impact_score |-> 200],
      [category |-> "governance", impact_score |-> 1],
      [category |-> "governance", impact_score |-> 200],
      [category |-> "transport", impact_score |-> 3] }

ScoreActivities(activity) ==
    /\ Len(acts) < MaxActs
    /\ acts' = Append(acts, activity)
    /\ score' = calculateESGScore(acts')
    /\ response' = [op |-> "calculateESGScore", status |-> 0]
    /\ UNCHANGED <<inflight, companies, activities, reports, users, nextUuid, now, lastSeal, io>>

\* the same activities with two neighbours exchanged
ReorderActivities(i) ==
    /\ i \in 1..(Len(acts) - 1)
    /\ acts' = [acts EXCEPT ![i] = acts[i + 1], ![i + 1] = acts[i]]
    /\ score' = calculateESGScore(acts')
    /\ response' = [op |-> "reorder", status |-> 0]
    /\ UNCHANGED <<inflight, companies, activities, reports, users, nextUuid, now, lastSeal, io>>

NextScore ==
    \/ \E activity \in ScoreInputs : ScoreActivities(activity)
    \/ \E i \in 1..MaxActs : ReorderActivities(i)

SpecScore == Init /\ [][NextScore]_vars

-----------------------------------------------------------------------------
(* The trend alone: getMonthlyTrend applied to every sequence of at most    *)
(* MaxActs activities drawn from TrendInputs                                *)

\* the clock values an activity handed to getMonthlyTrend may carry: three months
TrendClock == 0..4

TrendInputs == {[category |-> "environmental", created_at |-> t] : t \in TrendClock}

TrendActivities(activity) ==
    /\ Len(acts) < MaxActs
    /\ acts' = Append(acts, activity)
    /\ response' = [op |-> "getMonthlyTrend", status |-> 0, body |-> getMonthlyTrend(acts')]
    /\ UNCHANGED <<inflight, companies, activities, reports, users, nextUuid, now, lastSeal, io, score>>

NextTrend == \E activity \in TrendInputs : TrendActivities(activity)

SpecTrend == Init /\ [][NextTrend]_vars

-----------------------------------------------------------------------------
(* Verify(ledger) of the design: not in the source; every stored hash is the *)
(* digest of the record without its hash field, and every prev_hash is the  *)
(* hash of the record before it (the sentinel for the first)                *)

ChainLinked(ledger) ==
    \A i \in 1..Len(ledger) :
        ledger[i].prev_hash = IF i = 1 THEN Sentinel ELSE ledger[i - 1].hash

Verify(ledger) ==
    /\ \A i \in 1..Len(ledger) : ledger[i].hash = generateHash(Without(ledger[i], "hash"))
    /\ ChainLinked(ledger)

-----------------------------------------------------------------------------
(* Overlapping requests. A handler runs from one await to the next without  *)
(* interruption, and another request can run at each await: a request is a  *)
(* record of inflight that moves from one await to the next. A write of a   *)
(* file replaces its whole content in one step.                             *)

\* fs.writeFile(filePath, JSON.stringify(data)) that keeps what the file holds
\* and adds the last element of data to it
writeJSONFileMerged(stored, data) ==
    IF data = <<>> THEN stored ELSE Append(stored, data[Len(data)])

\* fs.writeFile(filePath, JSON.stringify(data)): the file holds data afterwards
writeJSONFile(stored, data) == data

\* a read that failed and so hid the records the file holds
Masked(file, readOk) == ~readOk /\ file # << >>

\* a request that has started: where it is, what it read and built so far,
\* whether one of its reads hid stored records, and the status it was answered
\* with (0 while it has no answer)
Started(op, req, pc, company, item, data, masked, status) ==
    [op |-> op, req |-> req, pc |-> pc, company |-> company, item |-> item,
     data |-> data, masked |-> masked, status |-> status]

\* the lookup of generateReport that goes on after answering 404
AfterLookupNoReturn(found) == "activities"

\* if (!company) { return res.status(404)... }
AfterLookup(found) == IF found = 0 THEN "done" ELSE "activities"

\* POST /api/companies up to the await of writeJSONFile
CreateCompanyRead(body, readOk) ==
    LET list       == readJSONFile(companies, readOk)
        newCompany == NewCompany(body, nextUuid, now)
    IN  /\ inflight' = Append(inflight,
                          Started("POST /api/companies", body, "write", << >>, newCompany,
                                  Append(list, newCompany), Masked(companies, readOk), 0))
        /\ nextUuid' = nextUuid + 1
        /\ UNCHANGED <<companies, activities, reports, users, now, response, lastSeal, io,
                       acts, score>>

\* POST /api/companies from the return of writeJSONFile
CreateCompanyWrite(i, writeOk) ==
    /\ i \in 1..Len(inflight)
    /\ inflight[i].op = "POST /api/companies"
    /\ inflight[i].pc = "write"
    /\ companies' = IF writeOk THEN writeJSONFile(companies, inflight[i].data) ELSE companies
    /\ inflight' = [inflight EXCEPT ![i].pc = "done",
                                    ![i].status = IF writeOk THEN 201 ELSE 500]
    /\ UNCHANGED <<activities, reports, users, nextUuid, now, response, lastSeal, io, acts,
                   score>>

\* POST /api/esg-activities up to the await of writeJSONFile
AppendActivityRead(body, readOk) ==
    LET list         == readJSONFile(activities, readOk)
        activityData == StoredActivity(body, nextUuid, now, list)
    IN  /\ inflight' = Append(inflight,
                          Started("POST /api/esg-activities", body, "write", << >>,
                                  activityData, Append(list, activityData),
                                  Masked(activities, readOk), 0))
        /\ nextUuid' = nextUuid + 1
        /\ UNCHANGED <<companies, activities, reports, users, now, response, lastSeal, io,
                       acts, score>>

\* POST /api/esg-activities from the return of writeJSONFile
AppendActivityWrite(i, writeOk) ==
    /\ i \in 1..Len(inflight)
    /\ inflight[i].op = "POST /api/esg-activities"
    /\ inflight[i].pc = "write"
    /\ activities' = IF writeOk THEN writeJSONFile(activities, inflight[i].data) ELSE activities
    /\ inflight' = [inflight EXCEPT ![i].pc = "done",
                                    ![i].status = IF writeOk THEN 201 ELSE 500]
    /\ UNCHANGED <<companies, reports, users, nextUuid, now, response, lastSeal, io, acts,
                   score>>

\* POST /api/reports/:companyId up to the await of the ledger read, or to the
\* 404 answer
ReportLookup(companyId, body, readOk) ==
    LET list  == readJSONFile(companies, readOk)
        found == FindCompany(list, companyId)
    IN  /\ inflight' = Append(inflight,
                          Started("POST /api/reports/:companyId",
                                  [companyId |-> companyId, body |-> body],
                                  AfterLookup(found),
                                  IF found = 0 THEN << >> ELSE list[found],
                                  << >>, << >>, Masked(companies, readOk),
                                  IF found = 0 THEN 404 ELSE 0))
        /\ UNCHANGED <<companies, activities, reports, users, nextUuid, now, response,
                       lastSeal, io, acts, score>>

\* POST /api/reports/:companyId from the return of the ledger read to the
\* await of the reports read
ReportBuild(i, readOk) ==
    /\ i \in 1..Len(inflight)
    /\ inflight[i].op = "POST /api/reports/:companyId"
    /\ inflight[i].pc = "activities"
    /\ LET req == inflight[i].req
           companyActivities ==
               CompanyActivities(readJSONFile(activities, readOk), req.companyId)
           report == Report(req.companyId, inflight[i].company, req.body, companyActivities,
                            nextUuid, now)
       IN  inflight' = [inflight EXCEPT ![i].pc = "reports", ![i].item = report,
                                        ![i].masked = @ \/ Masked(activities, readOk)]
    /\ nextUuid' = nextUuid + 1
    /\ UNCHANGED <<companies, activities, reports, users, now, response, lastSeal, io, acts,
                   score>>

\* POST /api/reports/:companyId from the return of the reports read to the
\* await of writeJSONFile
ReportRead(i, readOk) ==
    /\ i \in 1..Len(inflight)
    /\ inflight[i].op = "POST /api/reports/:companyId"
    /\ inflight[i].pc = "reports"
    /\ inflight' = [inflight EXCEPT
                       ![i].pc = "write",
                       ![i].masked = @ \/ Masked(reports, readOk),
                       ![i].data = Append(readJSONFile(reports, readOk), inflight[i].item)]
    /\ UNCHANGED <<companies, activities, reports, users, nextUuid, now, response, lastSeal,
                   io, acts, score>>

\* POST /api/reports/:companyId from the return of writeJSONFile
ReportWrite(i, writeOk) ==
    /\ i \in 1..Len(inflight)
    /\ inflight[i].op = "POST /api/reports/:companyId"
    /\ inflight[i].pc = "write"
    /\ reports' = IF writeOk THEN writeJSONFile(reports, inflight[i].data) ELSE reports
    /\ inflight' = [inflight EXCEPT ![i].pc = "done",
                                    ![i].status = IF writeOk THEN 200 ELSE 500]
    /\ UNCHANGED <<companies, activities, users, nextUuid, now, response, lastSeal, io, acts,
                   score>>

\* a request for a route the server does not have: answered 404 at once
RouteNotFound ==
    /\ inflight' = Append(inflight,
                          Started("Route not found", << >>, "done", << >>, << >>, << >>,
                                  FALSE, 404))
    /\ UNCHANGED <<companies, activities, reports, users, nextUuid, now, response, lastSeal,
                   io, acts, score>>

\* a request whose middleware raised an error, such as a body that does not
\* parse: answered 500 at once
ErrorHandler ==
    /\ inflight' = Append(inflight,
                          Started("Internal server error", << >>, "done", << >>, << >>,
                                  << >>, FALSE, 500))
    /\ UNCHANGED <<companies, activities, reports, users, nextUuid, now, response, lastSeal,
                   io, acts, score>>

RaceBodies ==
    { [company_id |-> 1, category |-> "environmental"],
      [company_id |-> 2, category |-> "governance", impact_score |-> 8] }

\* the read or write that request i awaits returns or fails
Resume(i) ==
    \/ \E writeOk \in BOOLEAN : CreateCompanyWrite(i, writeOk)
    \/ \E writeOk \in BOOLEAN : AppendActivityWrite(i, writeOk)
    \/ \E readOk \in BOOLEAN : ReportBuild(i, readOk)
    \/ \E readOk \in BOOLEAN : ReportRead(i, readOk)
    \/ \E writeOk \in BOOLEAN : ReportWrite(i, writeOk)

\* requests arrive, each running to its first await or to its answer, and the
\* awaited reads and writes return in any order
NextRace ==
    \/ \E readOk \in BOOLEAN :
          Len(inflight) < MaxRace /\ CreateCompanyRead([name |-> "Acme"], readOk)
    \/ \E body \in RaceBodies, readOk \in BOOLEAN :
          Len(inflight) < MaxRace /\ AppendActivityRead(body, readOk)
    \/ \E readOk \in BOOLEAN : Len(inflight) < MaxRace /\ ReportLookup(1, << >>, readOk)
    \/ Len(inflight) < MaxRace /\ RouteNotFound
    \/ Len(inflight) < MaxRace /\ ErrorHandler
    \/ \E i \in 1..MaxRace : Resume(i)

SpecRace == Init /\ [][NextRace]_vars

\* every read and every write eventually returns or fails
FairSpec == SpecRace /\ \A i \in 1..MaxRace : WF_vars(Resume(i))

-----------------------------------------------------------------------------
(* The logging build of the server (src/unnamed/part_000): the same routes, *)
(* each handler writing log lines around the same reads, writes and         *)
(* answers. A handler is an action over the collections, the identifiers    *)
(* and the response; log lines go to the console and to files under logs/,  *)
(* which no handler reads.                                                  *)

\* readJSONFile of the logging build, with the catch left out
readJSONFileLoggedStored(file, readOk) == file

\* readJSONFile: logs, and answers [] when the read or the parse fails
readJSONFileLogged(file, readOk) == IF readOk THEN file ELSE << >>

\* generateHash: the digest, logged; an error is logged and thrown again
generateHashLogged(data) == [sha256 |-> data]

\* calculateESGScore inside try/catch: 0 for no activities, else the weighted
\* sum of the category means, rounded and capped; NaN as soon as a key outside
\* the three was added to categoryScores
calculateESGScoreLogged(list) ==
    LET categoryScores == [c \in 1..3 |-> SumImpact(list, Categories[c])]
        count == [c \in 1..3 |-> CountCategory(list, Categories[c])]
        term(c) == DMul(IF count[c] = 0 THEN DZero ELSE DDivInt(categoryScores[c], count[c]),
                        weights[Categories[c]])
        totalScore == DAdd(DAdd(DAdd(DZero, term(1)), term(2)), term(3))
        otherKey == \E i \in 1..Len(list) :
                       CategoryKey(list[i]) \notin {Categories[c] : c \in 1..3}
    IN  IF Len(list) = 0 THEN 0
        ELSE IF otherKey THEN NaN
        ELSE MathMin(MathRound(totalScore), 100)

\* getMonthlyTrend inside try/catch: trend[month] = (trend[month] || 0) + 1
RECURSIVE getMonthlyTrendLogged(_)
getMonthlyTrendLogged(list) ==
    IF list = <<>> THEN << >>
    ELSE LET trend == getMonthlyTrendLogged(SubSeq(list, 1, Len(list) - 1))
             month == MonthOf(list[Len(list)].created_at)
         IN  (month :> (IF month \in DOMAIN trend THEN trend[month] ELSE 0) + 1) @@ trend

\* GET /api/companies
LoggedGetCompanies(readOk) ==
    /\ response' = [op |-> "GET /api/companies", req |-> << >>, status |-> 200,
                    body |-> readJSONFileLogged(companies, readOk)]
    /\ UNCHANGED <<companies, activities, reports, users, nextUuid, now>>

\* POST /api/companies
LoggedPostCompanies(body, readOk, writeOk) ==
    LET list       == readJSONFileLogged(companies, readOk)
        newCompany == ("esg_score" :> 0) @@ ("created_at" :> now) @@ body
                      @@ ("id" :> nextUuid)
    IN  /\ nextUuid' = nextUuid + 1
        /\ companies' = IF writeOk THEN Append(list, newCompany) ELSE companies
        /\ response' = IF writeOk
                       THEN [op |-> "POST /api/companies", req |-> body, status |-> 201,
                             body |-> newCompany]
                       ELSE Failure("POST /api/companies", body, "Failed to create company")
        /\ UNCHANGED <<activities, reports, users, now>>

\* GET /api/companies/:id
LoggedGetCompanyById(companyId, readCompaniesOk, readActivitiesOk) ==
    LET list  == readJSONFileLogged(companies, readCompaniesOk)
        found == FindCompany(list, companyId)
        companyActivities ==
            CompanyActivities(readJSONFileLogged(activities, readActivitiesOk), companyId)
        company == With(With(list[found], "esg_score",
                             calculateESGScoreLogged(companyActivities)),
                        "total_activities", Len(companyActivities))
    IN  /\ response' = IF found = 0
                       THEN NotFound("GET /api/companies/:id", [id |-> companyId])
                       ELSE [op |-> "GET /api/companies/:id", req |-> [id |-> companyId],
                             status |-> 200, body |-> company]
        /\ UNCHANGED <<companies, activities, reports, users, nextUuid, now>>

\* GET /api/esg-activities
LoggedGetEsgActivities(query, readOk) ==
    LET list == readJSONFileLogged(activities, readOk)
        ByCompany(a)  == FieldIs(a, "company_id", query.company_id)
        ByCategory(a) == FieldIs(a, "category", query.category)
        byCompany  == IF Has(query, "company_id") THEN SelectSeq(list, ByCompany) ELSE list
        byCategory == IF Truthy(query, "category") THEN SelectSeq(byCompany, ByCategory)
                      ELSE byCompany
    IN  /\ response' = [op |-> "GET /api/esg-activities", req |-> query, status |-> 200,
                        body |-> SortNewestFirst(byCategory)]
        /\ UNCHANGED <<companies, activities, reports, users, nextUuid, now>>

\* POST /api/esg-activities
LoggedPostEsgActivities(body, readOk, writeOk) ==
    LET list     == readJSONFileLogged(activities, readOk)
        created  == ("created_at" :> now) @@ body @@ ("id" :> nextUuid)
        hashed   == With(created, "hash", generateHashLogged(created))
        activityData ==
            With(hashed, "prev_hash",
                 IF Len(list) > 0 THEN list[Len(list)].hash ELSE HashString("0"))
    IN  /\ nextUuid' = nextUuid + 1
        /\ activities' = IF writeOk THEN Append(list, activityData) ELSE activities
        /\ response' = IF writeOk
                       THEN [op |-> "POST /api/esg-activities", req |-> body,
                             status |-> 201, body |-> activityData]
                       ELSE Failure("POST /api/esg-activities", body,
                                    "Failed to create ESG activity")
        /\ UNCHANGED <<companies, reports, users, now>>

\* POST /api/reports/:companyId
LoggedPostReports(companyId, body, readCompaniesOk, readActivitiesOk, readReportsOk, writeOk) ==
    LET framework == IF Has(body, "framework") THEN body.framework ELSE "GRI"
        period    == IF Has(body, "period") THEN body.period ELSE "2024"
        list      == readJSONFileLogged(companies, readCompaniesOk)
        found     == FindCompany(list, companyId)
        companyActivities ==
            CompanyActivities(readJSONFileLogged(activities, readActivitiesOk), companyId)
        report ==
            (IF Has(list[found], "name") THEN [company_name |-> list[found].name] ELSE << >>) @@
            [ id                     |-> nextUuid,
              company_id             |-> companyId,
              framework              |-> framework,
              period                 |-> period,
              generated_at           |-> now,
              esg_score              |-> calculateESGScoreLogged(companyActivities),
              total_activities       |-> Len(companyActivities),
              activities_by_category |->
                  [environmental |-> CountCategory(companyActivities, "environmental"),
                   social        |-> CountCategory(companyActivities, "social"),
                   governance    |-> CountCategory(companyActivities, "governance")],
              hash |-> generateHashLogged([companyId |-> companyId, framework |-> framework,
                                           period |-> period,
                                           activities |-> companyActivities]) ]
        req == [companyId |-> companyId, body |-> body]
    IN  IF found = 0
        THEN /\ response' = NotFound("POST /api/reports/:companyId", req)
             /\ UNCHANGED <<companies, activities, reports, users, nextUuid, now>>
        ELSE /\ nextUuid' = nextUuid + 1
             /\ reports' = IF writeOk
                           THEN Append(readJSONFileLogged(reports, readReportsOk), report)
                           ELSE reports
             /\ response' = IF writeOk
                            THEN [op |-> "POST /api/reports/:companyId", req |-> req,
                                  status |-> 200, body |-> report]
                            ELSE Failure("POST /api/reports/:companyId", req,
                                         "Failed to generate report")
             /\ UNCHANGED <<companies, activities, users, now>>

\* GET /api/dashboard/:companyId
LoggedGetDashboard(companyId, readCompaniesOk, readActivitiesOk) ==
    LET list  == readJSONFileLogged(companies, readCompaniesOk)
        found == FindCompany(list, companyId)
        companyActivities ==
            CompanyActivities(readJSONFileLogged(activities, readActivitiesOk), companyId)
        dashboard ==
            (IF Has(list[found], "name") THEN [company |-> list[found].name] ELSE << >>) @@
            [ esg_score         |-> calculateESGScoreLogged(companyActivities),
              total_activities  |-> Len(companyActivities),
              categories        |->
                  [environmental |-> CountCategory(companyActivities, "environmental"),
                   social        |-> CountCategory(companyActivities, "social"),
                   governance    |-> CountCategory(companyActivities, "governance")],
              recent_activities |-> Slice(companyActivities, 0, 5),
              monthly_trend     |-> getMonthlyTrendLogged(companyActivities) ]
        req == [companyId |-> companyId]
    IN  /\ response' = IF found = 0
                       THEN NotFound("GET /api/dashboard/:companyId", req)
                       ELSE [op |-> "GET /api/dashboard/:companyId", req |-> req,
                             status |-> 200, body |-> dashboard]
        /\ UNCHANGED <<companies, activities, reports, users, nextUuid, now>>

-----------------------------------------------------------------------------
(* Claims about the ledger, under SpecLedger *)

\* C1: after any sequence of appends the first record of the ledger has
\* prev_hash "0" and every later record has the hash of the record just before
\* it in the whole ledger, whichever companies own the records.
C1_ChainLinkage == ChainLinked(activities)

\* three records, the middle one of another company than its two neighbours
C1_Witness ==
    /\ Len(activities) >= 3
    /\ activities[1].company_id # activities[2].company_id
    /\ activities[3].company_id = activities[1].company_id

\* C2: after every append Verify holds of the ledger: each stored hash is the
\* digest of the stored record without its hash field (so with its prev_hash),
\* and each prev_hash is the hash of the record before.
C2_VerifyHolds == Verify(activities)

\* what may be written over a field of a stored record
TamperValues(ledger, key) ==
    IF key = "prev_hash"
    THEN {Sentinel, HashString("f")} \cup {ledger[j].hash : j \in 1..Len(ledger)}
    ELSE IF key = "category" THEN {"environmental", "social", "governance", "transport"}
    ELSE IF key = "impact_score" THEN {0, 3, 5, 8}
    ELSE 0..(MaxAppends + 1)

\* the ledger with field key of record i overwritten
Tampered(ledger, i, key, value) == [ledger EXCEPT ![i] = With(ledger[i], key, value)]

\* C4: changing the value of any one field other than hash in any one stored
\* record, all else left as stored, makes Verify report a violation.
C4_TamperEvident ==
    \A i \in 1..Len(activities) :
        \A key \in (DOMAIN activities[i]) \ {"hash"} :
            \A value \in TamperValues(activities, key) \ {activities[i][key]} :
                ~Verify(Tampered(activities, i, key, value))

\* a ledger of two records that Verify accepts as stored
C4_Witness == Len(activities) >= 2 /\ Verify(activities)

-----------------------------------------------------------------------------
(* Claims about the handlers, under Spec *)

IsPrefix(s, t) == Len(s) <= Len(t) /\ SubSeq(t, 1, Len(s)) = s

\* C3: no operation removes, reorders or rewrites a stored activity, whatever
\* its outcome: across every step the old ledger is a prefix of the new one,
\* and a successful append extends it by exactly the record it returns.
C3_AppendOnly ==
    [][/\ IsPrefix(activities, activities')
       /\ (/\ nextUuid' # nextUuid
           /\ response'.op = "POST /api/esg-activities"
           /\ response'.status = 201)
          => activities' = Append(activities, response'.body)]_vars

LookupOps ==
    {"GET /api/companies/:id", "POST /api/reports/:companyId", "GET /api/dashboard/:companyId"}

\* req.params.id or req.params.companyId of the request answered
RequestedId(resp) == IF Has(resp.req, "id") THEN resp.req.id ELSE resp.req.companyId

\* no stored company has this id
NoCompanyHas(id) == \A i \in 1..Len(companies) : ~(Has(companies[i], "id") /\ companies[i].id = id)

\* C9: getCompany, generateReport and getDashboard for an id that no stored
\* company has answer NotFound and leave every collection as it was.
C9_UnknownIdNotFound ==
    [][(/\ response'.op \in LookupOps
        /\ response' # response
        /\ NoCompanyHas(RequestedId(response')))
       => (response'.status = 404 /\ files' = files)]_vars

\* a report refused for an id that none of the stored companies has
C9_Witness ==
    /\ response.op = "POST /api/reports/:companyId"
    /\ response.status = 404
    /\ Len(companies) > 0
    /\ NoCompanyHas(RequestedId(response))

-----------------------------------------------------------------------------
(* Claims about reports, under SpecReports *)

\* C10: after a report of a company and then an append for that company, a
\* report generated again for the same company, framework and period has a
\* hash different from the first one's.
C10_SealChanges ==
    [][(/\ nextUuid' # nextUuid
        /\ response'.op = "POST /api/reports/:companyId"
        /\ response'.status = 200
        /\ lastSeal.sealed
        /\ lastSeal.appended
        /\ response'.body.company_id = lastSeal.company_id
        /\ response'.body.framework = lastSeal.framework
        /\ response'.body.period = lastSeal.period)
       => response'.body.hash # lastSeal.hash]_vars

\* C27: a report's hash depends on the company, the framework, the period and
\* the company's own activities only: a report generated after another one of
\* the same company with no append for that company in between has the same
\* hash when framework and period are the same, and, when framework or period
\* differs, a different hash with the same esg_score.
C27_HashOfOwnView ==
    [][(/\ nextUuid' # nextUuid
        /\ response'.op = "POST /api/reports/:companyId"
        /\ response'.status = 200
        /\ lastSeal.sealed
        /\ ~lastSeal.appended
        /\ response'.body.company_id = lastSeal.company_id)
       => IF /\ response'.body.framework = lastSeal.framework
             /\ response'.body.period = lastSeal.period
          THEN response'.body.hash = lastSeal.hash
          ELSE /\ response'.body.hash # lastSeal.hash
               /\ response'.body.esg_score = lastSeal.esg_score]_vars

\* a request answered by the handler of op: every handler sets the response,
\* and only the passing of time leaves it alone
Answered(op) == now' = now /\ response'.op = op /\ acts' = acts

\* C11: a successful generateReport leaves the report collection equal to the
\* one before followed by exactly the report it returns, and no step changes,
\* removes or reorders a report stored before.
C11_ReportsAppendOnly ==
    [][/\ IsPrefix(reports, reports')
       /\ (Answered("POST /api/reports/:companyId") /\ response'.status = 200)
          => reports' = Append(reports, response'.body)]_vars

\* the activities of the ledger that companyId owns, in append order
LedgerView(companyId) == CompanyActivities(activities, companyId)

\* C12: a report answered describes the activities of the ledger owned by its
\* company, in append order, at the time of the request: its hash covers that
\* subsequence, esg_score is its score, total_activities its length and the
\* count of each category the number of its activities of that category.
C12_ReportOfLedgerView ==
    [][(Answered("POST /api/reports/:companyId") /\ response'.status = 200) =>
          LET view   == LedgerView(response'.req.companyId)
              report == response'.body
          IN  /\ report.hash = generateHash([companyId  |-> response'.req.companyId,
                                             framework  |-> report.framework,
                                             period     |-> report.period,
                                             activities |-> view])
              /\ report.esg_score = calculateESGScore(view)
              /\ report.total_activities = Len(view)
              /\ \A c \in 1..3 :
                    report.activities_by_category[Categories[c]]
                    = CountCategory(view, Categories[c])]_vars

-----------------------------------------------------------------------------
(* Claims about the dashboard *)

\* the last n elements of list, all of them when it has fewer
LastN(list, n) == SubSeq(list, IF Len(list) > n THEN Len(list) - n + 1 ELSE 1, Len(list))

\* C13: the recent activities of a dashboard are the 5 activities of the
\* company appended last (all of them when it owns fewer), by append order in
\* the ledger: none appended before those 5 is listed.
C13_RecentAreLastFive ==
    [][(Answered("GET /api/dashboard/:companyId") /\ response'.status = 200) =>
          LET last   == LastN(LedgerView(response'.req.companyId), 5)
              recent == response'.body.recent_activities
          IN  /\ Len(recent) = Len(last)
              /\ \A j \in 1..Len(recent) : \E k \in 1..Len(last) : recent[j] = last[k]]_vars

\* the months in which the activities of list were created
MonthsOf(list) == {MonthOf(list[i].created_at) : i \in 1..Len(list)}

\* the activities of list created in month m
CreatedIn(list, m) == {i \in 1..Len(list) : MonthOf(list[i].created_at) = m}

RECURSIVE SumOfCounts(_, _)
SumOfCounts(trend, months) ==
    IF months = {} THEN 0
    ELSE LET m == CHOOSE x \in months : TRUE
         IN  trend[m] + SumOfCounts(trend, months \ {m})

OwnsNone(id) ==
    \A i \in 1..Len(activities) :
        ~(Has(activities[i], "company_id") /\ activities[i].company_id = id)

\* C15: the dashboard answered for a company that owns no activity, whatever
\* the other companies own, has score 0, a count of 0 for every category, no
\* recent activity and a trend without keys.
C15_EmptyDashboard ==
    [][(/\ Answered("GET /api/dashboard/:companyId")
        /\ response'.status = 200
        /\ OwnsNone(response'.req.companyId))
       => /\ response'.body.esg_score = 0
          /\ response'.body.total_activities = 0
          /\ \A c \in 1..3 : response'.body.categories[Categories[c]] = 0
          /\ response'.body.recent_activities = << >>
          /\ DOMAIN response'.body.monthly_trend = {}]_vars

\* a dashboard answered for a company without activities while the ledger
\* holds an activity of another company, read without failure
C15_Witness ==
    /\ response.op = "GET /api/dashboard/:companyId"
    /\ response.status = 200
    /\ io.failedReads = {}
    /\ OwnsNone(response.req.companyId)
    /\ Len(activities) > 0

-----------------------------------------------------------------------------
(* Claims about listing, validation and identifiers, under Spec *)

\* activity a passes every filter of the query
Matches(a, query) ==
    /\ Has(query, "company_id") => (Has(a, "company_id") /\ a.company_id = query.company_id)
    /\ Has(query, "category") => (Has(a, "category") /\ a.category = query.category)

\* the indices of the stored activities that pass the query
Matching(query) == {i \in 1..Len(activities) : Matches(activities[i], query)}

\* C16: listActivities answers exactly the stored activities that pass every
\* filter given (all of them without a filter), each once, the one created
\* later before the one created earlier.
C16_ListMatchingNewestFirst ==
    [][Answered("GET /api/esg-activities") =>
          LET list == response'.body
          IN  /\ response'.status = 200
              /\ Len(list) = Cardinality(Matching(response'.req))
              /\ \A i \in Matching(response'.req) :
                    \E j \in 1..Len(list) : list[j] = activities[i]
              /\ \A j, k \in 1..Len(list) :
                    list[j].created_at > list[k].created_at => j < k]_vars

ValidCategory(a) == \E c \in 1..3 : Has(a, "category") /\ a.category = Categories[c]

\* C17: every activity stored in the ledger has one of the three categories:
\* an append with another category, or with none, is refused and stores nothing.
C17_CategoryClosed == \A i \in 1..Len(activities) : ValidCategory(activities[i])

\* C18: every stored company and every stored activity carries the identifier
\* generated for it, whatever fields the caller sent, so that no two companies
\* and no two activities have the same identifier.
C18_IdentifiersUnique ==
    /\ \A i, j \in 1..Len(companies) : companies[i].id = companies[j].id => i = j
    /\ \A i, j \in 1..Len(activities) : activities[i].id = activities[j].id => i = j

-----------------------------------------------------------------------------
(* Claims about failing reads and writes, under Spec *)

\* a step in which a request was answered: only the passing of time is not one
Request == now' = now /\ acts' = acts

\* the stored company a lookup of id finds
StoredCompany(id) == companies[FindCompany(companies, id)]

\* C19: a read that fails is never reported: the request goes on as if the
\* collection were empty.  Listings answer an empty sequence, lookups answer
\* NotFound when the companies cannot be read and count no activity when the
\* ledger cannot be read, a creation stores the new record alone, and only a
\* failed write makes a request fail.
C19_ReadFailureMasked ==
    [][Request =>
          LET r == response'
              f == io'.failedReads
          IN  /\ r.status = 500 => io'.failedWrites > 0
              /\ ("companies" \in f /\ r.op = "GET /api/companies")
                    => (r.status = 200 /\ r.body = << >>)
              /\ ("activities" \in f /\ r.op = "GET /api/esg-activities")
                    => (r.status = 200 /\ r.body = << >>)
              /\ ("companies" \in f /\ r.op \in LookupOps)
                    => (r.status = 404 /\ files' = files)
              /\ ("activities" \in f /\ r.op = "GET /api/companies/:id")
                    => (r.status = 200 /\ r.body.esg_score = 0 /\ r.body.total_activities = 0)
              /\ ("activities" \in f /\ r.op = "GET /api/dashboard/:companyId")
                    => (r.status = 200
                        /\ r.body = Dashboard(StoredCompany(r.req.companyId), << >>))
              /\ ("activities" \in f /\ r.op = "POST /api/reports/:companyId" /\ r.status = 200)
                    => r.body = Report(r.req.companyId, StoredCompany(r.req.companyId),
                                       r.req.body, << >>, nextUuid, now)
              /\ ("reports" \in f /\ r.op = "POST /api/reports/:companyId" /\ r.status = 200)
                    => reports' = <<r.body>>
              /\ ("companies" \in f /\ r.op = "POST /api/companies" /\ io'.failedWrites = 0)
                    => (r.status = 201 /\ companies' = <<r.body>>)
              /\ ("activities" \in f /\ r.op = "POST /api/esg-activities" /\ io'.failedWrites = 0)
                    => (r.status = 201 /\ activities' = <<r.body>>
                        /\ r.body.prev_hash = Sentinel)]_vars

\* a listing answered empty and as a success while the ledger, which could not
\* be read, stores an activity
C19_Witness ==
    /\ response.op = "GET /api/esg-activities"
    /\ io.failedReads = {"activities"}
    /\ Len(activities) > 0
    /\ response.status = 200
    /\ response.body = << >>

-----------------------------------------------------------------------------
(* Claims about what a request writes, under Spec *)

GetOps ==
    {"GET /api/companies", "GET /api/companies/:id", "GET /api/esg-activities",
     "GET /api/dashboard/:companyId"}

\* C22: a request writes at most the collection of its operation: the four
\* reading operations leave every collection as it was, the score and count
\* that getCompany derives included; createCompany changes only the companies,
\* appendActivity only the ledger and generateReport only the reports.
C22_Frame ==
    [][Request =>
          /\ users' = users
          /\ response'.op \in GetOps => files' = files
          /\ response'.op = "POST /api/companies"
                => (activities' = activities /\ reports' = reports)
          /\ response'.op = "POST /api/esg-activities"
                => (companies' = companies /\ reports' = reports)
          /\ response'.op = "POST /api/reports/:companyId"
                => (companies' = companies /\ activities' = activities)]_vars

\* getCompany answered a score and a count that the stored company does not carry
C22_Witness ==
    /\ response.op = "GET /api/companies/:id"
    /\ response.status = 200
    /\ response.body.esg_score > 0
    /\ response.body.total_activities > 0
    /\ \A i \in 1..Len(companies) :
          companies[i].esg_score = 0 /\ ~Has(companies[i], "total_activities")

-----------------------------------------------------------------------------
(* Claims about the defaults of generateReport, under SpecDefaults *)

\* the value a request body gives for a field, or the default when it gives none
SuppliedOr(body, key, default) == IF key \in DOMAIN body THEN body[key] ELSE default

\* C23: a generated report carries "GRI" as framework when the request gives
\* none and "2024" as period when the request gives none, each independently
\* of the other; a value the request gives is stored as it is; the same two
\* values are the ones bound into the report's hash.
C23_Defaults ==
    [][(Answered("POST /api/reports/:companyId") /\ response'.status = 200) =>
          LET req       == response'.req
              report    == response'.body
              framework == SuppliedOr(req.body, "framework", "GRI")
              period    == SuppliedOr(req.body, "period", "2024")
              read      == IF "activities" \in io'.failedReads THEN << >> ELSE activities
          IN  /\ reports'[Len(reports')] = report
              /\ report.framework = framework
              /\ report.period = period
              /\ report.hash =
                    generateHash([companyId |-> req.companyId, framework |-> framework,
                                  period |-> period,
                                  activities |-> CompanyActivities(read, req.companyId)])]_vars

\* a report of a request that gave a period and no framework
C23_Witness ==
    /\ response.op = "POST /api/reports/:companyId"
    /\ response.status = 200
    /\ response.req.body = [period |-> "2025"]
    /\ reports[Len(reports)].framework = "GRI"
    /\ reports[Len(reports)].period = "2025"

\* C28: every stored company has esg_score 0 in every reachable state, so
\* listCompanies answers 0 for each company, while getCompany answers, on the
\* same state, the score of the activities the ledger holds for the company,
\* which is also the esg_score getDashboard answers.
C28_StoredScoreStale ==
    /\ [](\A i \in 1..Len(companies) : companies[i].esg_score = 0)
    /\ [][(Answered("GET /api/companies") /\ response'.status = 200) =>
             \A i \in 1..Len(response'.body) : response'.body[i].esg_score = 0]_vars
    /\ [][(/\ \/ Answered("GET /api/companies/:id")
              \/ Answered("GET /api/dashboard/:companyId")
           /\ response'.status = 200) =>
             response'.body.esg_score =
                calculateESGScore(LedgerView(RequestedId(response')))]_vars

-----------------------------------------------------------------------------
(* Claims about the fields the server assigns, under SpecForged *)

\* the ledger as the request read it: empty when the read failed
LedgerRead == IF "activities" \in io'.failedReads THEN << >> ELSE activities

\* C26: whatever the body of an append carries, created_at, hash and prev_hash
\* included, the record it stores has the server's time as created_at, the
\* digest the server computed as hash, and as prev_hash the hash of the last
\* record of the ledger the request read, or "0" when that ledger is empty; a
\* created company has the server's time as created_at and esg_score 0.
C26_ServerAssigned ==
    [][(Request /\ response'.status = 201) =>
          /\ response'.op = "POST /api/esg-activities" =>
                LET stored == activities'[Len(activities')]
                IN  /\ stored = response'.body
                    /\ stored.created_at = now
                    /\ stored.hash = generateHash(ActivityData(response'.req, nextUuid, now))
                    /\ stored.prev_hash = IF LedgerRead = << >> THEN Sentinel
                                          ELSE LedgerRead[Len(LedgerRead)].hash
          /\ response'.op = "POST /api/companies" =>
                LET stored == companies'[Len(companies')]
                IN  /\ stored = response'.body
                    /\ stored.created_at = now
                    /\ stored.esg_score = 0]_vars

\* an append whose body carried its own created_at, hash and prev_hash, stored
\* behind an earlier record with none of the three as the caller sent them
C26_Witness ==
    /\ response.op = "POST /api/esg-activities"
    /\ response.status = 201
    /\ Len(activities) > 1
    /\ Has(response.req, "created_at") /\ response.req.created_at # now
    /\ Has(response.req, "hash") /\ Has(response.req, "prev_hash")
    /\ activities[Len(activities)].created_at = now
    /\ activities[Len(activities)].hash # response.req.hash
    /\ activities[Len(activities)].prev_hash = activities[Len(activities) - 1].hash

-----------------------------------------------------------------------------
(* Claims about overlapping requests, under SpecRace and FairSpec *)

\* the collection that the handler of op writes, after the step
WrittenBy(op) ==
    IF op = "POST /api/companies" THEN companies'
    ELSE IF op = "POST /api/esg-activities" THEN activities'
    ELSE reports'

\* request i has been answered with success
Succeeded(i) == inflight[i].status \in {200, 201}

\* requests i and j of one operation were both answered with success, and no
\* failed read hid a stored record from either
BothSucceeded(op, i, j) ==
    /\ i # j
    /\ inflight[i].op = op /\ inflight[j].op = op
    /\ ~inflight[i].masked /\ ~inflight[j].masked
    /\ Succeeded(i) /\ Succeeded(j)

\* C21: a write that succeeds leaves in its collection what its request read
\* plus the request's own record, whatever another request wrote since that
\* read: of two overlapping writers of one collection that both read before
\* either wrote, both are answered with success and the collection holds the
\* record of the last writer only.
C21_LastWriterWins ==
    [][\A i \in 1..Len(inflight) :
          (inflight[i].pc = "write" /\ inflight'[i].status \in {200, 201})
          => WrittenBy(inflight[i].op) = inflight[i].data]_vars

\* two generateReport requests, no read hiding a record from either, both
\* answered with success, and reports.json holds one report
C21_Witness ==
    /\ Len(reports) = 1
    /\ \E i, j \in 1..Len(inflight) : BothSucceeded("POST /api/reports/:companyId", i, j)

\* C24: provided every read and write eventually returns or fails, every
\* request is eventually answered; it is answered once, with success, with
\* 404 or with 500, and an answered request does nothing more, also when its
\* reads or its write fail.
C24_AnsweredOnce ==
    /\ \A i \in 1..MaxRace :
          [](Len(inflight) >= i => <>(Len(inflight) >= i /\ inflight[i].status # 0))
    /\ [](\A i \in 1..Len(inflight) :
             /\ inflight[i].status \in {0, 200, 201, 404, 500}
             /\ inflight[i].status # 0 <=> inflight[i].pc = "done")
    /\ [][\A i \in 1..Len(inflight) :
             inflight[i].status # 0 => inflight'[i] = inflight[i]]_vars

\* three requests are answered: generateReport with 404, generateReport with
\* 500 after its write failed, and one with success
C24_Witness ==
    /\ \A i \in 1..Len(inflight) : inflight[i].status # 0
    /\ \E i, j, k \in 1..Len(inflight) :
          /\ inflight[i].op = "POST /api/reports/:companyId" /\ inflight[i].status = 404
          /\ inflight[j].op = "POST /api/reports/:companyId" /\ inflight[j].status = 500
          /\ Succeeded(k)

\* C25: with appends overlapping in every way and reads failing, the ledger
\* stored is at every moment a chain: its first record has prev_hash "0" and
\* every other record has the hash of the record before it as prev_hash; so is
\* every ledger an append is about to write.
C25_ChainSurvives ==
    /\ ChainLinked(activities)
    /\ \A i \in 1..Len(inflight) :
          inflight[i].op = "POST /api/esg-activities" => ChainLinked(inflight[i].data)

\* two overlapping appends were both answered with success and the ledger
\* holds one record, and another append, whose read failed on that ledger, is
\* about to write
C25_Witness ==
    /\ Len(activities) = 1
    /\ \E i, j, k \in 1..Len(inflight) :
          /\ BothSucceeded("POST /api/esg-activities", i, j)
          /\ inflight[k].op = "POST /api/esg-activities"
          /\ inflight[k].masked /\ inflight[k].pc = "write"

-----------------------------------------------------------------------------
(* Claims about the two builds of the server, under Spec *)

\* the step the logging build takes for the request just answered, given the
\* same identifier, the same clock and the same outcome of every read and write
LoggedStep ==
    LET req     == response'.req
        op      == response'.op
        Ok(name) == name \notin io'.failedReads
        writeOk == io'.failedWrites = 0
    IN  CASE op = "GET /api/companies" -> LoggedGetCompanies(Ok("companies"))
          [] op = "POST /api/companies" -> LoggedPostCompanies(req, Ok("companies"), writeOk)
          [] op = "GET /api/companies/:id" ->
                LoggedGetCompanyById(req.id, Ok("companies"), Ok("activities"))
          [] op = "GET /api/esg-activities" -> LoggedGetEsgActivities(req, Ok("activities"))
          [] op = "POST /api/esg-activities" ->
                LoggedPostEsgActivities(req, Ok("activities"), writeOk)
          [] op = "POST /api/reports/:companyId" ->
                LoggedPostReports(req.companyId, req.body, Ok("companies"), Ok("activities"),
                                  Ok("reports"), writeOk)
          [] op = "GET /api/dashboard/:companyId" ->
                LoggedGetDashboard(req.companyId, Ok("companies"), Ok("activities"))
          [] OTHER -> FALSE

\* C29: for every request the plain build answers, the logging build, started
\* in the same state and given the same request, identifier, clock and outcome
\* of each read and write, gives the same answer and leaves the same
\* companies, activities and reports.
C29_BuildsAgree == [][Request => LoggedStep]_vars

\* a dashboard answered by both builds for a company with an activity, its
\* score, counts, recent activities and monthly trend derived by each
C29_Witness ==
    /\ response.op = "GET /api/dashboard/:companyId"
    /\ response.status = 200
    /\ response.body.esg_score > 0
    /\ response.body.total_activities > 0
    /\ DOMAIN response.body.monthly_trend # {}

-----------------------------------------------------------------------------
(* Claims about calculateESGScore, under SpecScore *)

ValidCategories(list) ==
    \A i \in 1..Len(list) : \E c \in 1..3 : CategoryKey(list[i]) = Categories[c]

\* the impact of the design: 5 only when the field is absent
SpecImpact(activity) == IF Has(activity, "impact_score") THEN activity.impact_score ELSE 5

RECURSIVE SpecSum(_, _)
SpecSum(list, category) ==
    IF list = <<>> THEN 0
    ELSE SpecSum(Tail(list), category)
         + (IF CategoryKey(Head(list)) = category THEN SpecImpact(Head(list)) ELSE 0)

\* a count of zero contributes nothing: the sum is then zero too
Denom(list, category) ==
    IF CountCategory(list, category) = 0 THEN 1 ELSE CountCategory(list, category)

\* numerator of 0.4*mean(E) + 0.3*mean(S) + 0.3*mean(G) over WeightedDen
WeightedNum(list, sums) ==
    4 * sums[1] * Denom(list, "social") * Denom(list, "governance")
    + 3 * sums[2] * Denom(list, "environmental") * Denom(list, "governance")
    + 3 * sums[3] * Denom(list, "environmental") * Denom(list, "social")

\* the sums of the design and the sums the code forms, by category
SpecSums(list) == [c \in 1..3 |-> SpecSum(list, Categories[c])]

CodeSums(list) == [c \in 1..3 |-> CategoryScore(list, Categories[c])]

WeightedDen(list) ==
    10 * Denom(list, "environmental") * Denom(list, "social") * Denom(list, "governance")

RoundHalfUp(num, den) == (2 * num + den) \div (2 * den)

Min(a, b) == IF a <= b THEN a ELSE b

\* min(round(0.4*mean(E) + 0.3*mean(S) + 0.3*mean(G)), 100) in exact arithmetic
ReferenceScore(list) ==
    IF list = <<>> THEN 0
    ELSE Min(RoundHalfUp(WeightedNum(list, SpecSums(list)), WeightedDen(list)), 100)

\* C5: for activities of the three categories Score is the reference formula:
\* 0 for none, else the weighted sum of the category means (the mean of an
\* empty category being 0), rounded half up and capped at 100.
C5_ScoreIsReference == ValidCategories(acts) => score = ReferenceScore(acts)

C7_ImpactContribution ==
    \A c \in 1..3 : CategoryScore(acts, Categories[c]) = SpecSum(acts, Categories[c])

IsPermutation(s, t) ==
    /\ Len(s) = Len(t)
    /\ \A i \in 1..Len(s) :
        Cardinality({j \in 1..Len(s) : s[j] = s[i]}) = Cardinality({j \in 1..Len(t) : t[j] = s[i]})

=============================================================================
